---- MODULE Spec2Model ----
(***************************************************************************)
(* Session / time-accounting engine of the activity logger                 *)
(* (src/activity_logger_v10.py, class StopwatchApp).                       *)
(*                                                                         *)
(* Time is counted in whole seconds, as the code does: _last_autosave_dt   *)
(* is truncated with replace(microsecond=0) and every session time goes    *)
(* through time.mktime(dt.timetuple()).  A calendar day is DayLen units    *)
(* long; DateOf(t) is datetime.date().  Each handler reads the wall clock  *)
(* once (`clock`); the overlay, fonts and chart are not modelled.          *)
(***************************************************************************)
EXTENDS Integers, Sequences, FiniteSets, TLC

VARIABLES
    clock,                  \* wall clock, datetime.now() in whole seconds
    skews,                  \* how often the wall clock has been set back
    hotkey_queue,           \* _on_hotkey calls scheduled by root.after(0, ...)
    autosave_pending,       \* _autosave_tick calls scheduled by root.after and not yet run
    running,                \* self.running
    start_time,             \* self.start_time (NoTime = None)
    current_activity_id,    \* self.current_activity_id (NoId = None)
    current_activity_name,  \* self.current_activity_name (NoName = None)
    current_session_id,     \* self.current_session_id (NoId = None)
    last_autosave_dt,       \* self._last_autosave_dt
    activity_var,           \* self.activity_var (the selected radio)
    activities,             \* table activities: row id -> name
    sessions,               \* table sessions: row id -> row
    daily_totals,           \* table daily_totals: <<date, activity_id>> -> seconds
    closed,                 \* _on_close has run
    cover,                  \* history: how often each second was credited (0, 1, 2 = more than once)
    ran,                    \* history: per date, seconds spent with running = TRUE
    run,                    \* history: the run opened by the last start from Idle
    op                      \* history: the last handler that ran and what it found

vars == <<clock, skews, hotkey_queue, autosave_pending, running, start_time, current_activity_id, current_activity_name,
          current_session_id, last_autosave_dt, activity_var, activities, sessions,
          daily_totals, closed, cover, ran, run, op>>

----------------------------------------------------------------------------
(* Bounds of the model *)

DayLen == 2
MaxTime == 4
MaxSessions == 3
MaxSkews == 1
MaxQueue == 2

(* None *)
NoTime == -1
NoId == 0
NoName == "None"

Times == 0..MaxTime
DateOf(t) == t \div DayLen
LastDate == DateOf(MaxTime) + 1
Dates == 0..LastDate
Units == 0..((LastDate + 1) * DayLen - 1)

(* The clock is set back by at most a day. *)
MaxBack == DayLen

Max(a, b) == IF a >= b THEN a ELSE b

----------------------------------------------------------------------------
(* Configuration *)

DEFAULT_ACTIVITIES == <<"Work", "Study", "Break", "Waste", "Projects">>

HK_WORK == 1
HK_STUDY == 2
HK_BREAK == 3
HK_WASTE == 4
HK_PROJECTS == 5

(* Inputs the model draws from *)
RadioChoices == {"Work", "Custom"}
CustomEntries == {"", "WORK"}
HotkeyIds == {HK_BREAK}
QueuedHotkeyIds == {HK_WORK, HK_BREAK}

(* Names handed to the registry: known ones, a new one, other spellings *)
RegistryNames == {"Work", "WORK", "Break", "Read"}

(* COLLATE NOCASE: the case-folded name *)
Fold(name) ==
    CASE name = "Work" -> "work"
      [] name = "WORK" -> "work"
      [] name = "Study" -> "study"
      [] name = "Break" -> "break"
      [] name = "Waste" -> "waste"
      [] name = "Projects" -> "projects"
      [] name = "Custom" -> "custom"
      [] name = "Read" -> "read"
      [] OTHER -> name

(* ORDER BY name under NOCASE: position of the folded name in the alphabet *)
NameRank(name) ==
    CASE Fold(name) = "break" -> 1
      [] Fold(name) = "custom" -> 2
      [] Fold(name) = "projects" -> 3
      [] Fold(name) = "read" -> 4
      [] Fold(name) = "study" -> 5
      [] Fold(name) = "waste" -> 6
      [] Fold(name) = "work" -> 7
      [] OTHER -> 8

----------------------------------------------------------------------------
(* DB: activities *)

(* Variant: the name column compares byte for byte, without NOCASE. *)
InsertOrIgnoreCaseSensitive(acts, name) ==
    IF \E i \in 1..Len(acts) : acts[i] = name
    THEN acts
    ELSE Append(acts, name)

InsertOrIgnoreActivity(acts, name) ==
    IF \E i \in 1..Len(acts) : Fold(acts[i]) = Fold(name)
    THEN acts
    ELSE Append(acts, name)

RECURSIVE SeedFrom(_, _)
SeedFrom(acts, names) ==
    IF names = <<>> THEN acts
    ELSE SeedFrom(InsertOrIgnoreActivity(acts, Head(names)), Tail(names))

SeedDefaultActivities(acts) ==
    InsertOrIgnoreActivity(SeedFrom(acts, DEFAULT_ACTIVITIES), "Custom")

SelectActivityId(acts, name) ==
    CHOOSE i \in 1..Len(acts) : Fold(acts[i]) = Fold(name)

LoadActivities(acts) ==
    LET ordered == SortSeq(acts, LAMBDA a, b : NameRank(a) < NameRank(b))
    IN  Append(SelectSeq(ordered, LAMBDA n : n # "Custom"), "Custom")

FirstNonCustomActivity(acts) ==
    LET names == LoadActivities(acts)
        idx == {i \in 1..Len(names) : names[i] # "Custom"}
    IN  IF idx = {} THEN "Work"
        ELSE names[CHOOSE i \in idx : \A j \in idx : i <= j]

GetOrCreateActivity(s, name) ==
    [s EXCEPT !.activities = InsertOrIgnoreActivity(s.activities, name)]

----------------------------------------------------------------------------
(* Activity control: the session row of the running activity *)

CreateNewSessionRow(s, start_dt) ==
    [s EXCEPT
        !.sessions = Append(s.sessions,
            [activity_id |-> s.current_activity_id, start_ts |-> start_dt,
             end_ts |-> start_dt, duration_sec |-> 0]),
        !.current_session_id = Len(s.sessions) + 1]

(* Variant: the UPDATE selects the rows by activity_id instead of by id. *)
UpdateRowsOfActivity(s, end_dt) ==
    IF ~s.running \/ s.current_session_id = NoId \/ s.start_time = NoTime
    THEN s
    ELSE [s EXCEPT !.sessions = [i \in 1..Len(s.sessions) |->
            IF s.sessions[i].activity_id = s.sessions[s.current_session_id].activity_id
            THEN [s.sessions[i] EXCEPT
                    !.end_ts = end_dt,
                    !.duration_sec = Max(0, end_dt - s.start_time)]
            ELSE s.sessions[i]]]

UpdateCurrentSessionRow(s, end_dt) ==
    IF ~s.running \/ s.current_session_id = NoId \/ s.start_time = NoTime
    THEN s
    ELSE [s EXCEPT
            !.sessions[s.current_session_id].end_ts = end_dt,
            !.sessions[s.current_session_id].duration_sec =
                Max(0, end_dt - s.start_time)]

(* Variant: the row is updated but current_session_id is not cleared. *)
FinalizeKeepsSessionId(s, end_dt) ==
    UpdateCurrentSessionRow(s, end_dt)

FinalizeCurrentSessionRow(s, end_dt) ==
    [UpdateCurrentSessionRow(s, end_dt) EXCEPT !.current_session_id = NoId]

(* Variant: the previous session is dropped as live without a last update. *)
SavePreviousWithoutUpdate(s, now) ==
    IF s.running /\ s.current_activity_id # NoId /\ s.start_time # NoTime
    THEN [s EXCEPT
            !.current_session_id = NoId,
            !.running = FALSE,
            !.start_time = NoTime]
    ELSE s

SavePreviousActivityIfRunning(s, now) ==
    IF s.running /\ s.current_activity_id # NoId /\ s.start_time # NoTime
    THEN [FinalizeCurrentSessionRow(s, now) EXCEPT
            !.running = FALSE,
            !.start_time = NoTime]
    ELSE s

(* Variant: re-selecting the running activity keeps its session row. *)
StartActivityKeepsSame(s, name, now) ==
    LET s0 == GetOrCreateActivity(s, name)
        s1 == SavePreviousActivityIfRunning(s, now)
        s2 == GetOrCreateActivity(s1, name)
        s3 == [s2 EXCEPT
                !.current_activity_name = name,
                !.current_activity_id = SelectActivityId(s2.activities, name),
                !.running = TRUE,
                !.start_time = now,
                !.last_autosave_dt = now]
    IN  IF s.running /\ SelectActivityId(s0.activities, name) = s.current_activity_id
        THEN s0
        ELSE CreateNewSessionRow(s3, now)

(* _start_activity up to, not including, _create_new_session_row *)
StartActivityAssigned(s, name, now) ==
    LET s1 == SavePreviousActivityIfRunning(s, now)
        s2 == GetOrCreateActivity(s1, name)
    IN  [s2 EXCEPT
            !.current_activity_name = name,
            !.current_activity_id = SelectActivityId(s2.activities, name),
            !.running = TRUE,
            !.start_time = now,
            !.last_autosave_dt = now]

(* Variant: _start_activity leaves _last_autosave_dt where it was. *)
StartActivityKeepsCheckpoint(s, name, now) ==
    [CreateNewSessionRow(StartActivityAssigned(s, name, now), now)
        EXCEPT !.last_autosave_dt = s.last_autosave_dt]

StartActivity(s, name, now) ==
    CreateNewSessionRow(StartActivityAssigned(s, name, now), now)

(* _start_activity when the INSERT INTO sessions raises: the exception leaves
   _create_new_session_row before current_session_id is assigned and unwinds
   through _start_activity, which has no handler; the attributes assigned
   before the call stay as they are. *)
StartActivityInsertRaises(s, name, now) ==
    StartActivityAssigned(s, name, now)

----------------------------------------------------------------------------
(* Autosave and midnight rollover *)

(* INSERT ... ON CONFLICT DO UPDATE SET seconds = seconds + excluded.seconds.
   upto is the instant the credited seconds end at (history only). *)
(* Variant: the upsert replaces the stored seconds instead of adding. *)
AddToDailyTotalOverwrites(s, date, activity_id, seconds, upto) ==
    [s EXCEPT !.daily_totals =
        IF <<date, activity_id>> \in DOMAIN s.daily_totals
        THEN [s.daily_totals EXCEPT ![<<date, activity_id>>] = seconds]
        ELSE s.daily_totals @@ (<<date, activity_id>> :> seconds)]

AddToDailyTotal(s, date, activity_id, seconds, upto) ==
    LET key == <<date, activity_id>>
    IN  [s EXCEPT
            !.daily_totals =
                IF key \in DOMAIN s.daily_totals
                THEN [s.daily_totals EXCEPT ![key] = @ + seconds]
                ELSE s.daily_totals @@ (key :> seconds),
            !.cover = [u \in Units |->
                IF u >= upto - seconds /\ u < upto
                THEN (IF s.cover[u] >= 1 THEN 2 ELSE 1)
                ELSE s.cover[u]]]

Midnight(reference_dt) == (DateOf(reference_dt) + 1) * DayLen

(* Variant: the seconds up to midnight are credited to now's date. *)
RolloverCreditsNowDate(s, reference_dt, now_dt) ==
    IF ~s.running \/ s.current_activity_id = NoId
    THEN [st |-> s, ref |-> reference_dt]
    ELSE IF DateOf(reference_dt) = DateOf(now_dt)
    THEN [st |-> s, ref |-> reference_dt]
    ELSE
        LET midnight == Midnight(reference_dt)
            secs_to_midnight == midnight - reference_dt
            s1 == IF secs_to_midnight > 0
                  THEN FinalizeCurrentSessionRow(
                          AddToDailyTotal(s, DateOf(now_dt),
                              s.current_activity_id, secs_to_midnight, midnight),
                          midnight)
                  ELSE s
            s2 == [s1 EXCEPT !.running = TRUE, !.start_time = midnight]
        IN  [st |-> CreateNewSessionRow(s2, midnight), ref |-> midnight]

(* Returns the state and the reference instant to continue from. *)
RolloverMidnightIfNeeded(s, reference_dt, now_dt) ==
    IF ~s.running \/ s.current_activity_id = NoId
    THEN [st |-> s, ref |-> reference_dt]
    ELSE IF DateOf(reference_dt) = DateOf(now_dt)
    THEN [st |-> s, ref |-> reference_dt]
    ELSE
        LET midnight == Midnight(reference_dt)
            secs_to_midnight == midnight - reference_dt
            s1 == IF secs_to_midnight > 0
                  THEN FinalizeCurrentSessionRow(
                          AddToDailyTotal(s, DateOf(reference_dt),
                              s.current_activity_id, secs_to_midnight, midnight),
                          midnight)
                  ELSE s
            s2 == [s1 EXCEPT !.running = TRUE, !.start_time = midnight]
        IN  [st |-> CreateNewSessionRow(s2, midnight), ref |-> midnight]

(* _do_autosave, within one date, when the UPDATE of the live session row
   raises: the seconds are credited and _last_autosave_dt is assigned, and
   the exception leaves before the row is brought up to date. *)
DoAutosaveUpdateRaises(s, now_dt) ==
    [AddToDailyTotal(s, DateOf(now_dt), s.current_activity_id,
                     now_dt - s.last_autosave_dt, now_dt)
        EXCEPT !.last_autosave_dt = now_dt]

(* _schedule_autosave: one more _autosave_tick call is pending *)
ScheduleAutosave(n) == n + 1

(* Variant: _autosave_tick without try/finally. *)
AutosaveTickTimersNoFinally(n, raised) ==
    IF raised THEN n - 1 ELSE ScheduleAutosave(n - 1)

(* _autosave_tick: the call that fired is no longer pending, and the finally
   clause schedules the next one whether or not _do_autosave raised. *)
AutosaveTickTimers(n, raised) == ScheduleAutosave(n - 1)

(* Variant: the autosave does not return early when nothing is running. *)
DoAutosaveWhileIdle(s, now_dt) ==
    LET delta_sec == now_dt - s.last_autosave_dt
        s1 == IF delta_sec > 0 /\ s.current_activity_id # NoId
              THEN [AddToDailyTotal(s, DateOf(now_dt),
                        s.current_activity_id, delta_sec, now_dt)
                    EXCEPT !.last_autosave_dt = now_dt]
              ELSE [s EXCEPT !.last_autosave_dt = now_dt]
    IN  UpdateCurrentSessionRow(s1, now_dt)

DoAutosave(s, now_dt) ==
    IF ~s.running \/ s.current_activity_id = NoId
    THEN [s EXCEPT !.last_autosave_dt = now_dt]
    ELSE
        LET r == RolloverMidnightIfNeeded(s, s.last_autosave_dt, now_dt)
            delta_sec == now_dt - r.ref
            s1 == IF delta_sec > 0
                  THEN [AddToDailyTotal(r.st, DateOf(now_dt),
                            r.st.current_activity_id, delta_sec, now_dt)
                        EXCEPT !.last_autosave_dt = now_dt]
                  ELSE r.st
        IN  UpdateCurrentSessionRow(s1, now_dt)

----------------------------------------------------------------------------
(* Handlers, as functions of the program state *)

SwitchActivity(s, selected, custom, now) ==
    IF selected = "Custom"
    THEN
        LET prev == IF s.current_activity_name # NoName
                    THEN s.current_activity_name
                    ELSE FirstNonCustomActivity(s.activities)
            s1 == [s EXCEPT !.activity_var = prev]
        IN  IF custom # ""
            THEN StartActivity(
                    [GetOrCreateActivity(s1, custom) EXCEPT !.activity_var = custom],
                    custom, now)
            ELSE s1
    ELSE StartActivity(s, selected, now)

(* Variant: the Start button does not look at self.running. *)
StartButtonUnguarded(s, now) ==
    StartActivity(s,
        IF s.activity_var # "" THEN s.activity_var
        ELSE FirstNonCustomActivity(s.activities),
        now)

StartButton(s, now) ==
    IF ~s.running
    THEN StartActivity(s,
            IF s.activity_var # "" THEN s.activity_var
            ELSE FirstNonCustomActivity(s.activities),
            now)
    ELSE s

(* Variant: stop finalizes the row without the final autosave. *)
StopWithoutAutosave(s, now) ==
    SavePreviousActivityIfRunning(s, now)

StopButton(s, now) ==
    SavePreviousActivityIfRunning(DoAutosave(s, now), now)

HotkeyName(hk_id) ==
    CASE hk_id = HK_WORK -> "Work"
      [] hk_id = HK_STUDY -> "Study"
      [] hk_id = HK_BREAK -> "Break"
      [] hk_id = HK_WASTE -> "Waste"
      [] hk_id = HK_PROJECTS -> "Projects"
      [] OTHER -> ""

(* Variant: the listener thread runs the handler itself. *)
HotkeyLoopCallsHandler(s, hk_id, now) ==
    LET name == HotkeyName(hk_id)
    IN  IF name = "" THEN s
        ELSE StartActivity([s EXCEPT !.activity_var = name], name, now)

(* _hotkey_loop on WM_HOTKEY: it schedules _on_hotkey with root.after and
   assigns no attribute of the tracker and writes nothing to the DB. *)
HotkeyLoopMessage(s, hk_id, now) == s

OnHotkey(s, hk_id, now) ==
    LET name == HotkeyName(hk_id)
    IN  IF name = "" THEN s
        ELSE StartActivity([s EXCEPT !.activity_var = name], name, now)

(* The 10 ms poll: autosave only when the date changed since the last autosave *)
ClockPollNeedsAutosave(s, now) ==
    s.running /\ DateOf(now) # DateOf(s.last_autosave_dt)

UpdateClockPoll(s, now) ==
    IF ClockPollNeedsAutosave(s, now) THEN DoAutosave(s, now) ELSE s

(* The elapsed seconds _current_time_text formats *)
CurrentElapsed(s, now) ==
    IF s.running /\ s.start_time # NoTime
    THEN now - s.start_time
    ELSE 0

OnCloseHandler(s, now) ==
    SavePreviousActivityIfRunning(DoAutosave(s, now), now)

----------------------------------------------------------------------------
(* The state machine *)

Cur ==
    [running |-> running, start_time |-> start_time,
     current_activity_id |-> current_activity_id,
     current_activity_name |-> current_activity_name,
     current_session_id |-> current_session_id,
     last_autosave_dt |-> last_autosave_dt,
     activity_var |-> activity_var,
     activities |-> activities, sessions |-> sessions,
     daily_totals |-> daily_totals, cover |-> cover]

Install(s) ==
    /\ running' = s.running
    /\ start_time' = s.start_time
    /\ current_activity_id' = s.current_activity_id
    /\ current_activity_name' = s.current_activity_name
    /\ current_session_id' = s.current_session_id
    /\ last_autosave_dt' = s.last_autosave_dt
    /\ activity_var' = s.activity_var
    /\ activities' = s.activities
    /\ sessions' = s.sessions
    /\ daily_totals' = s.daily_totals
    /\ cover' = s.cover

Get(totals, date, activity_id) ==
    IF <<date, activity_id>> \in DOMAIN totals THEN totals[<<date, activity_id>>] ELSE 0

(* No handler that the properties read has run since the clock last moved. *)
NoOp ==
    [name |-> "none", ticked |-> FALSE,
     pre_running |-> FALSE, pre_aid |-> NoId, pre_last |-> 0]

(* The handler that ran and the tracker state it found: whether _do_autosave ran
   in it, the activity a switch replaced, the checkpoint a tick started from.
   A handler that returned at its guard leaves no record. *)
OpRec(name, ticked) ==
    IF name \in {"cancel", "raise"} \/ (name = "start" /\ running)
       \/ (name = "poll" /\ ~ticked)
    THEN NoOp
    ELSE [name |-> IF name = "poll" THEN "tick" ELSE name,
          ticked |-> ticked,
          pre_running |-> running,
          pre_aid |-> IF name = "switch" THEN current_activity_id ELSE NoId,
          pre_last |-> IF name \in {"tick", "poll"} THEN last_autosave_dt ELSE 0]

(* The run a start from Idle opens: the rows before it, the total of its
   (date, activity) before it, and whether only ticks and polls followed;
   since is the instant of the last _start_activity, from which on the
   current activity has been the running one. *)
RunAfter(s, name) ==
    IF ~running /\ s.running
    THEN [n0 |-> Len(sessions),
          base |-> Get(daily_totals, DateOf(clock), s.current_activity_id),
          clean |-> TRUE,
          since |-> clock]
    ELSE IF running /\ name \in {"switch", "raise"}
    THEN [run EXCEPT !.clean = FALSE, !.since = clock]
    ELSE run

(* A handler runs to completion on the Tk main loop. *)
Handle(s, name, ticked) ==
    /\ ~closed
    /\ Len(s.sessions) <= MaxSessions
    /\ Install(s)
    /\ op' = OpRec(name, ticked)
    /\ run' = RunAfter(s, name)
    /\ UNCHANGED <<clock, skews, ran>>

(* __init__ before _start_activity: empty DB seeded, nothing running *)
Constructed ==
    [running |-> FALSE, start_time |-> NoTime,
     current_activity_id |-> NoId, current_activity_name |-> NoName,
     current_session_id |-> NoId, last_autosave_dt |-> 0,
     activity_var |-> "",
     activities |-> SeedDefaultActivities(<<>>),
     sessions |-> <<>>,
     daily_totals |-> <<>>,
     cover |-> [u \in Units |-> 0]]

InitialState ==
    LET default_name == FirstNonCustomActivity(Constructed.activities)
    IN  StartActivity([Constructed EXCEPT !.activity_var = default_name],
                      default_name, 0)

Init ==
    /\ clock = 0
    /\ skews = 0
    /\ hotkey_queue = <<>>
    /\ autosave_pending = ScheduleAutosave(0)
    /\ running = InitialState.running
    /\ start_time = InitialState.start_time
    /\ current_activity_id = InitialState.current_activity_id
    /\ current_activity_name = InitialState.current_activity_name
    /\ current_session_id = InitialState.current_session_id
    /\ last_autosave_dt = InitialState.last_autosave_dt
    /\ activity_var = InitialState.activity_var
    /\ activities = InitialState.activities
    /\ sessions = InitialState.sessions
    /\ daily_totals = InitialState.daily_totals
    /\ cover = InitialState.cover
    /\ closed = FALSE
    /\ ran = [d \in Dates |-> 0]
    /\ run = [n0 |-> 0, base |-> 0, clean |-> TRUE, since |-> 0]
    /\ op = [NoOp EXCEPT !.name = "init"]

(* One second of wall-clock time passes. *)
Advance ==
    /\ ~closed
    /\ clock < MaxTime
    /\ clock' = clock + 1
    /\ ran' = IF running THEN [ran EXCEPT ![DateOf(clock)] = @ + 1] ELSE ran
    /\ op' = NoOp
    /\ UNCHANGED <<skews, running, start_time, current_activity_id,
                   current_activity_name, current_session_id, last_autosave_dt,
                   activity_var, activities, sessions, daily_totals, closed, cover,
                   run, hotkey_queue, autosave_pending>>

(* The system clock is set back. *)
ClockBack ==
    /\ ~closed
    /\ skews < MaxSkews
    /\ skews' = skews + 1
    /\ \E t \in Times : t < clock /\ clock - t <= MaxBack /\ clock' = t
    /\ op' = NoOp
    /\ UNCHANGED <<running, start_time, current_activity_id, current_activity_name,
                   current_session_id, last_autosave_dt, activity_var, activities,
                   sessions, daily_totals, closed, cover, ran, run,
                   hotkey_queue, autosave_pending>>

AutosaveTick ==
    /\ autosave_pending >= 1
    /\ Handle(DoAutosave(Cur, clock), "tick", TRUE)
    /\ autosave_pending' = AutosaveTickTimers(autosave_pending, FALSE)
    /\ UNCHANGED <<closed, hotkey_queue>>

UpdateClock ==
    /\ Handle(UpdateClockPoll(Cur, clock), "poll", ClockPollNeedsAutosave(Cur, clock))
    /\ UNCHANGED <<closed, hotkey_queue, autosave_pending>>

SelectRadio ==
    \E selected \in RadioChoices, custom \in CustomEntries :
        /\ selected # "Custom" => custom = ""
        /\ Handle(SwitchActivity([Cur EXCEPT !.activity_var = selected],
                                 selected, custom, clock),
                  IF selected = "Custom" /\ custom = "" THEN "cancel" ELSE "switch",
                  FALSE)
        /\ UNCHANGED <<closed, hotkey_queue, autosave_pending>>

PressHotkey ==
    \E hk_id \in HotkeyIds :
        /\ Handle(OnHotkey(Cur, hk_id, clock), "switch", FALSE)
        /\ UNCHANGED <<closed, hotkey_queue, autosave_pending>>

PressStart ==
    /\ Handle(StartButton(Cur, clock), "start", FALSE)
    /\ UNCHANGED <<closed, hotkey_queue, autosave_pending>>

PressStop ==
    /\ Handle(StopButton(Cur, clock), "stop", TRUE)
    /\ UNCHANGED <<closed, hotkey_queue, autosave_pending>>

OnClose ==
    /\ Handle(OnCloseHandler(Cur, clock), "close", TRUE)
    /\ closed' = TRUE
    /\ hotkey_queue' = <<>>
    /\ autosave_pending' = 0

Next ==
    \/ Advance
    \/ AutosaveTick
    \/ UpdateClock
    \/ SelectRadio
    \/ PressHotkey
    \/ PressStart
    \/ PressStop
    \/ OnClose

Spec == Init /\ [][Next]_vars

(* A hotkey switch during which the sessions INSERT raises sqlite3.Error;
   Tk reports the exception of the callback and the main loop goes on. *)
HotkeyInsertRaises ==
    \E hk_id \in HotkeyIds :
        /\ Handle(StartActivityInsertRaises(Cur, HotkeyName(hk_id), clock),
                  "raise", FALSE)
        /\ UNCHANGED <<closed, hotkey_queue, autosave_pending>>

NextFail == Next \/ HotkeyInsertRaises

SpecFail == Init /\ [][NextFail]_vars

(* The hotkey listener thread receives WM_HOTKEY and schedules the handler. *)
CaptureHotkey ==
    \E hk_id \in QueuedHotkeyIds :
        /\ ~closed
        /\ Len(hotkey_queue) < MaxQueue
        /\ Install(HotkeyLoopMessage(Cur, hk_id, clock))
        /\ hotkey_queue' = Append(hotkey_queue, hk_id)
        /\ UNCHANGED <<clock, skews, closed, ran, run, op, autosave_pending>>

(* The Tk main loop runs the oldest scheduled _on_hotkey call. *)
DispatchHotkey ==
    /\ hotkey_queue # <<>>
    /\ Handle(OnHotkey(Cur, Head(hotkey_queue), clock), "switch", FALSE)
    /\ hotkey_queue' = Tail(hotkey_queue)
    /\ UNCHANGED <<closed, autosave_pending>>

(* The program with the listener thread and the main loop as two steps. *)
NextHotkey ==
    \/ Advance
    \/ AutosaveTick
    \/ CaptureHotkey
    \/ DispatchHotkey
    \/ OnClose

SpecHotkey == Init /\ [][NextHotkey]_vars

(* The autosave timer fires and _do_autosave raises at its last write. *)
AutosaveTickRaises ==
    /\ autosave_pending >= 1
    /\ running /\ current_activity_id # NoId /\ current_session_id # NoId
    /\ DateOf(last_autosave_dt) = DateOf(clock)
    /\ clock > last_autosave_dt
    /\ Handle(DoAutosaveUpdateRaises(Cur, clock), "raise", TRUE)
    /\ autosave_pending' = AutosaveTickTimers(autosave_pending, TRUE)
    /\ UNCHANGED <<closed, hotkey_queue>>

(* The timer loop with the handlers that call _do_autosave themselves. *)
NextTimer ==
    \/ Advance
    \/ AutosaveTick
    \/ AutosaveTickRaises
    \/ UpdateClock
    \/ PressStop
    \/ OnClose

SpecTimer == Init /\ [][NextTimer]_vars

(* The same program under a wall clock that may also be set back. *)
NextSkew == Next \/ ClockBack

SpecSkew == Init /\ [][NextSkew]_vars

(* A running tracker under a wall clock that may be set back: time, ticks,
   hotkey switches and close. *)
NextSkewRun ==
    \/ Advance
    \/ ClockBack
    \/ AutosaveTick
    \/ PressHotkey
    \/ OnClose

SpecSkewRun == Init /\ [][NextSkewRun]_vars

----------------------------------------------------------------------------
(* Properties *)

ProgramVars == <<running, start_time, current_activity_id, current_activity_name,
                 current_session_id, last_autosave_dt, activities, sessions,
                 daily_totals>>

(* _do_autosave ran as the whole handler: the timer, or a poll that found a new date *)
TickStep == op'.name = "tick" /\ clock' = clock

(* _start_activity ran from the radio or a hotkey *)
SwitchStep == op'.name = "switch" /\ clock' = clock

RECURSIVE DateTotal(_, _, _)
DateTotal(totals, date, n) ==
    IF n = 0 THEN 0 ELSE Get(totals, date, n) + DateTotal(totals, date, n - 1)

(* Seconds of the running activity on `date` since the last autosave *)
Uncredited(date) ==
    IF running
    THEN Cardinality({u \in Units :
            u >= last_autosave_dt /\ u < clock /\ DateOf(u) = date})
    ELSE 0

(* C1: Conservation. Under a non-decreasing clock, for every calendar date the
   seconds credited to daily_totals on that date plus the live session's seconds
   of that date not yet credited equal the time the tracker spent Running on
   that date. *)
C1_Conservation ==
    \A d \in Dates :
        DateTotal(daily_totals, d, Len(activities)) + Uncredited(d) = ran[d]

(* C2: No second of wall-clock time is credited to daily_totals more than once. *)
C2_NoDoubleCount ==
    \A u \in Units : cover[u] <= 1

(* C3: Day-split. A tick at `now` on the date after last_autosave_dt's, with a
   session live for activity A, credits (midnight - ref) to (D, A) and
   (now - midnight) to (D+1, A), closes the live row at midnight with duration
   midnight - start_ts, and opens a live row for A starting at midnight. *)
C3_DaySplitCorrect ==
    [][(TickStep /\ running /\ current_session_id # NoId
            /\ DateOf(clock) = DateOf(last_autosave_dt) + 1)
        =>
        LET ref == last_autosave_dt
            D == DateOf(ref)
            A == current_activity_id
            midnight == (D + 1) * DayLen
            n == Len(sessions)
        IN  /\ Get(daily_totals', D, A) = Get(daily_totals, D, A) + (midnight - ref)
            /\ Get(daily_totals', D + 1, A) =
                   Get(daily_totals, D + 1, A) + (clock - midnight)
            /\ Len(sessions') = n + 1
            /\ sessions'[current_session_id] =
                   [sessions[current_session_id] EXCEPT
                       !.end_ts = midnight,
                       !.duration_sec = midnight - sessions[current_session_id].start_ts]
            /\ sessions'[n + 1].activity_id = A
            /\ sessions'[n + 1].start_ts = midnight
            /\ current_session_id' = n + 1
            /\ running' /\ current_activity_id' = A]_vars

C3_Witness ==
    /\ op.name = "tick" /\ op.pre_running
    /\ DateOf(clock) = DateOf(op.pre_last) + 1
    /\ op.pre_last < Midnight(op.pre_last) /\ Midnight(op.pre_last) < clock
    /\ running /\ Len(sessions) >= 2
    /\ sessions[current_session_id].start_ts = Midnight(op.pre_last)
    /\ Get(daily_totals, DateOf(clock), current_activity_id) = clock - Midnight(op.pre_last)

(* C4: At most one session is live (the row current_session_id names); the
   tracker is Running exactly when one is, and that row belongs to
   current_activity_id. *)
C4_AtMostOneLive ==
    /\ current_session_id \in 0..Len(sessions)
    /\ running <=> current_session_id # NoId
    /\ running => sessions[current_session_id].activity_id = current_activity_id

C4_Witness ==
    /\ op.name = "tick" /\ op.pre_running
    /\ DateOf(clock) # DateOf(op.pre_last)
    /\ running /\ Len(sessions) >= 3
    /\ current_session_id = Len(sessions)

(* C5: A switch while A is Running credits (now - last_autosave_dt) to A's daily
   total of that date and closes A's session row at now. *)
C5_SwitchFlushes ==
    [][(SwitchStep /\ running /\ clock >= last_autosave_dt
            /\ DateOf(clock) = DateOf(last_autosave_dt))
        =>
        /\ Get(daily_totals', DateOf(clock), current_activity_id) =
               Get(daily_totals, DateOf(clock), current_activity_id)
                   + (clock - last_autosave_dt)
        /\ sessions'[current_session_id].end_ts = clock]_vars

(* C6: Multi-day gap. A tick more than one date after last_autosave_dt credits a
   full day to each whole date in between and (now - start of now's date) to
   now's date. *)
C6_MultiDayGap ==
    [][(TickStep /\ running /\ DateOf(clock) > DateOf(last_autosave_dt) + 1)
        =>
        LET A == current_activity_id
        IN  /\ \A d \in Dates :
                   (DateOf(last_autosave_dt) < d /\ d < DateOf(clock))
                   => Get(daily_totals', d, A) = Get(daily_totals, d, A) + DayLen
            /\ Get(daily_totals', DateOf(clock), A) =
                   Get(daily_totals, DateOf(clock), A)
                       + (clock - DateOf(clock) * DayLen)]_vars

(* C7: A tick at a time before last_autosave_dt credits nothing and does not
   move last_autosave_dt back. *)
C7_NoNegativeCredit ==
    [][(TickStep /\ clock < last_autosave_dt)
        =>
        /\ daily_totals' = daily_totals
        /\ last_autosave_dt' >= last_autosave_dt]_vars

(* C8: Stop finalizes cleanly. A run started from Idle at T0 and stopped at
   T0 + d on the same date, with only ticks in between, leaves exactly one
   session row for the run, closed at T0 + d with duration d, d seconds more in
   the (date, activity) total, no live session, and the tracker Idle. *)
C8_StopFinalizesCleanly ==
    (/\ op.name = "stop" /\ op.pre_running /\ run.clean
     /\ Len(sessions) > run.n0
     /\ DateOf(sessions[run.n0 + 1].start_ts) = DateOf(clock))
    =>
    LET row == sessions[run.n0 + 1]
        d == clock - row.start_ts
    IN  /\ Len(sessions) = run.n0 + 1
        /\ row.end_ts = clock
        /\ row.duration_sec = d
        /\ Get(daily_totals, DateOf(clock), row.activity_id) = run.base + d
        /\ ~running
        /\ current_session_id = NoId

C8_Witness ==
    /\ op.name = "stop" /\ op.pre_running /\ run.clean
    /\ run.n0 >= 1
    /\ Len(sessions) = run.n0 + 1
    /\ DateOf(sessions[run.n0 + 1].start_ts) = DateOf(clock)
    /\ sessions[run.n0 + 1].duration_sec >= 1
    /\ ~running

(* C9: A switch to the activity already running closes the live row at now and
   opens a second row starting at now with zero duration. *)
C9_SwitchResetsBoundary ==
    [][(SwitchStep /\ running /\ current_session_id # NoId
            /\ current_activity_id' = current_activity_id
            /\ clock > sessions[current_session_id].start_ts)
        =>
        LET n == Len(sessions)
            T0 == sessions[current_session_id].start_ts
        IN  /\ Len(sessions') = n + 1
            /\ sessions'[current_session_id] =
                   [sessions[current_session_id] EXCEPT
                       !.end_ts = clock, !.duration_sec = clock - T0]
            /\ sessions'[n + 1] =
                   [activity_id |-> current_activity_id, start_ts |-> clock,
                    end_ts |-> clock, duration_sec |-> 0]
            /\ current_session_id' = n + 1
            /\ start_time' = clock
            /\ running']_vars

C9_Witness ==
    /\ op.name = "switch" /\ op.pre_running
    /\ op.pre_aid = current_activity_id
    /\ Len(sessions) >= 2
    /\ sessions[Len(sessions) - 1].activity_id = current_activity_id
    /\ sessions[Len(sessions) - 1].end_ts = clock
    /\ sessions[Len(sessions) - 1].duration_sec >= 1
    /\ sessions[Len(sessions)].start_ts = clock

(* C10: A tick repeated at the same `now` as the tick just before it changes
   no tracker state, no session row and no daily total. *)
C10_RepeatedTickNoop ==
    [][(TickStep /\ op.name = "tick")
        => UNCHANGED ProgramVars]_vars

(* C11: Every session row has end_ts >= start_ts, duration_sec >= 0 and
   duration_sec = end_ts - start_ts, whatever the clock readings. *)
C11_SessionRowInvariant ==
    \A i \in 1..Len(sessions) :
        /\ sessions[i].end_ts >= sessions[i].start_ts
        /\ sessions[i].duration_sec >= 0
        /\ sessions[i].duration_sec = sessions[i].end_ts - sessions[i].start_ts

(* stop, or a timer tick, ran *)
StopOrTickStep == op'.name \in {"tick", "stop"} /\ clock' = clock

(* C12: Stop or tick while Idle changes no session row and no daily total and
   leaves the tracker Idle; all that changes is last_autosave_dt, set to now. *)
C12_IdleNoop ==
    [][(StopOrTickStep /\ ~running)
        =>
        /\ UNCHANGED <<running, start_time, current_activity_id,
                       current_activity_name, current_session_id, activities,
                       sessions, daily_totals>>
        /\ last_autosave_dt' = clock]_vars

C12_Witness ==
    /\ op.name = "tick" /\ ~op.pre_running
    /\ op.pre_last < clock
    /\ last_autosave_dt = clock
    /\ ~running
    /\ Len(sessions) >= 1
    /\ current_activity_id # NoId

(* C16: The elapsed time shown is now - start_time while Running, never below
   zero, and zero while Idle. *)
C16_CurrentElapsedClamped ==
    CurrentElapsed(Cur, clock) =
        IF running THEN Max(0, clock - start_time) ELSE 0

(* C20: A tick while Running at now >= last_autosave_dt leaves
   last_autosave_dt = now, also when it split the day and nothing remains
   after midnight. *)
C20_TickCheckpoint ==
    [][(TickStep /\ running /\ clock >= last_autosave_dt)
        => last_autosave_dt' = clock]_vars

(* C18: Names that are equal without regard to case get the same activity id,
   asking again adds no row, and no two rows of activities have names that
   are equal without regard to case. *)
C18_IdempotentRegistry ==
    /\ \A i, j \in 1..Len(activities) :
          Fold(activities[i]) = Fold(activities[j]) => i = j
    /\ current_activity_id # NoId =>
          current_activity_id = SelectActivityId(activities, current_activity_name)
    /\ \A n1, n2 \in RegistryNames :
          Fold(n1) = Fold(n2) =>
              LET a1 == InsertOrIgnoreActivity(activities, n1)
                  a2 == InsertOrIgnoreActivity(a1, n2)
              IN  /\ a2 = a1
                  /\ Len(a1) <= Len(activities) + 1
                  /\ SelectActivityId(a2, n2) = SelectActivityId(a1, n1)
                  /\ \A i, j \in 1..Len(a2) :
                        Fold(a2[i]) = Fold(a2[j]) => i = j

C18_Witness ==
    /\ running
    /\ current_activity_name = "WORK"
    /\ current_activity_id = SelectActivityId(activities, "Work")
    /\ Len(activities) = Len(DEFAULT_ACTIVITIES) + 1

(* the Start button ran and started an activity *)
StartStep == op'.name = "start" /\ clock' = clock

RECURSIVE CreditedUpTo(_)
CreditedUpTo(d) ==
    IF d < 0 THEN 0
    ELSE DateTotal(daily_totals, d, Len(activities)) + CreditedUpTo(d - 1)

RECURSIVE RanUpTo(_)
RanUpTo(d) ==
    IF d < 0 THEN 0 ELSE ran[d] + RanUpTo(d - 1)

(* What _on_close leaves apart from the credit: a tick ran, then stop *)
ClosedIdle ==
    closed =>
        /\ op.name = "close" /\ op.ticked
        /\ ~running
        /\ current_session_id = NoId
        /\ op.pre_running =>
              /\ sessions[Len(sessions)].end_ts = clock
              /\ sessions[Len(sessions)].duration_sec =
                    clock - sessions[Len(sessions)].start_ts

(* C13: Close runs one last tick and then stop; afterwards the tracker is
   Idle with no live session, all the time spent Running up to the close
   instant is in the daily totals, and the last session row ends at the close
   instant with the matching duration. *)
C13_ShutdownOrdering ==
    /\ ClosedIdle
    /\ closed => CreditedUpTo(LastDate) = RanUpTo(LastDate)

(* C14: When a storage write fails, the tracker state in memory does not
   part from what is stored: the tracker is never Running without a live
   session row. *)
C14_NoDivergenceOnWriteFailure ==
    running =>
        /\ current_session_id # NoId
        /\ current_session_id \in 1..Len(sessions)
        /\ sessions[current_session_id].activity_id = current_activity_id

(* C15: The hotkey listener thread changes neither the tracker state nor the
   DB; it only queues the hotkey. The main loop takes the queued hotkeys
   oldest first and applies each as one switch to the activity it names. *)
C15_SingleWriterHandoff ==
    [][/\ Len(hotkey_queue') > Len(hotkey_queue) =>
            /\ UNCHANGED <<ProgramVars, activity_var>>
            /\ \E hk_id \in QueuedHotkeyIds :
                  hotkey_queue' = Append(hotkey_queue, hk_id)
       /\ (Len(hotkey_queue') < Len(hotkey_queue) /\ ~closed') =>
            /\ hotkey_queue' = Tail(hotkey_queue)
            /\ Cur' = OnHotkey(Cur, Head(hotkey_queue), clock)
            /\ running'
            /\ current_activity_name' = HotkeyName(Head(hotkey_queue))
            /\ Len(sessions') = Len(sessions) + 1]_vars

C15_Witness ==
    /\ op.name = "switch"
    /\ current_activity_name = "Work"
    /\ hotkey_queue = <<HK_BREAK>>
    /\ Len(sessions) >= 3
    /\ sessions[Len(sessions)].activity_id = SelectActivityId(activities, "Work")
    /\ sessions[Len(sessions) - 1].activity_id = SelectActivityId(activities, "Break")

(* every row of old is in new with at least as many seconds *)
TotalsGrow(old, new) ==
    \A k \in DOMAIN old : k \in DOMAIN new /\ new[k] >= old[k]

TotalsNonNegative(totals) ==
    \A k \in DOMAIN totals : totals[k] >= 0

(* C19: Whatever the clock reads, the seconds of a daily total are never
   negative and never go down in any operation, and a row of daily_totals is
   never removed. *)
C19_DailyTotalMonotone ==
    [][/\ TotalsGrow(daily_totals, daily_totals')
       /\ TotalsNonNegative(daily_totals')]_vars

C19_Witness ==
    /\ skews >= 1
    /\ op.name = "tick" /\ op.pre_running
    /\ clock < op.pre_last
    /\ \E k \in DOMAIN daily_totals : daily_totals[k] >= 1

(* the seconds credited to activity a, over all dates up to d *)
RECURSIVE ActivityTotal(_, _, _)
ActivityTotal(totals, a, d) ==
    IF d < 0 THEN 0 ELSE Get(totals, d, a) + ActivityTotal(totals, a, d - 1)

(* C21: Every credit goes to the activity that is current and running, and
   covers only time during which that activity has been the running one: a
   step that changes daily_totals adds clock - last_autosave_dt seconds to
   the current activity alone, and that stretch does not begin before the
   activity was started. *)
C21_CreditAttribution ==
    [][daily_totals' # daily_totals =>
        /\ running /\ current_activity_id # NoId
        /\ run.since <= last_autosave_dt /\ last_autosave_dt < clock
        /\ \A a \in 1..Len(activities) :
              ActivityTotal(daily_totals', a, LastDate) =
                  ActivityTotal(daily_totals, a, LastDate) +
                  (IF a = current_activity_id
                   THEN clock - last_autosave_dt ELSE 0)]_vars

C21_Witness ==
    /\ op.name = "tick" /\ op.pre_running
    /\ run.since >= 1 /\ ~run.clean
    /\ op.pre_last = run.since
    /\ clock > run.since
    /\ Get(daily_totals, DateOf(run.since), current_activity_id) >= 1
    /\ \E a \in 1..Len(activities) :
          a # current_activity_id /\ ActivityTotal(daily_totals, a, LastDate) >= 1

(* the duration_sec of the first n session rows that belong to activity a *)
RECURSIVE SessionTotal(_, _, _)
SessionTotal(rows, a, n) ==
    IF n = 0 THEN 0
    ELSE (IF rows[n].activity_id = a THEN rows[n].duration_sec ELSE 0)
         + SessionTotal(rows, a, n - 1)

(* C22: Whenever the tracker is Idle, for every activity the seconds in
   daily_totals over all dates equal the duration_sec over all of the
   activity's session rows. *)
C22_SessionsAgreeWithTotals ==
    ~running =>
        \A a \in 1..Len(activities) :
            ActivityTotal(daily_totals, a, LastDate) =
                SessionTotal(sessions, a, Len(sessions))

(* C23: For every date, the seconds of daily_totals over all activities never
   exceed the length of the day. *)
C23_PerDateBound ==
    \A d \in Dates : DateTotal(daily_totals, d, Len(activities)) <= DayLen

(* C24: A session row that is not the live one is never changed again: in
   every step all rows but the one current_session_id names stay as they
   are, no row is removed, and the live row keeps its activity_id and
   start_ts. *)
C24_FinalizedImmutable ==
    [][/\ Len(sessions') >= Len(sessions)
       /\ \A i \in 1..Len(sessions) :
             /\ i # current_session_id => sessions'[i] = sessions[i]
             /\ sessions'[i].activity_id = sessions[i].activity_id
             /\ sessions'[i].start_ts = sessions[i].start_ts]_vars

C24_Witness ==
    /\ op.name = "tick" /\ op.pre_running
    /\ Len(sessions) >= 3
    /\ current_session_id = Len(sessions)
    /\ sessions[current_session_id].duration_sec >= 1
    /\ \E i \in 1..(Len(sessions) - 1) :
          /\ sessions[i].duration_sec >= 1
          /\ sessions[i].activity_id = current_activity_id
          /\ sessions[i].end_ts < clock

(* C25: From construction until close exactly one _autosave_tick call is
   pending: a firing schedules the next one also when _do_autosave raises,
   and stop, close and the clock poll schedule none. *)
C25_TickRearmed ==
    IF closed THEN autosave_pending = 0 ELSE autosave_pending = 1

C25_Witness ==
    /\ ~closed
    /\ running /\ current_session_id # NoId
    /\ sessions[current_session_id].end_ts < last_autosave_dt
    /\ last_autosave_dt = clock
    /\ autosave_pending = 1

(* two rows' [start_ts, end_ts] have at most an endpoint in common *)
NoOverlap(rows) ==
    \A i, j \in 1..Len(rows) :
        i < j => rows[i].end_ts <= rows[j].start_ts

(* C26: Under a non-decreasing clock, the intervals of any two session rows
   share at most an endpoint, and a row opened while an activity was running
   (by a switch or a day split) starts where the row before it ended. *)
C26_SessionsDoNotOverlap ==
    [][/\ NoOverlap(sessions) /\ NoOverlap(sessions')
       /\ running =>
            \A j \in (Len(sessions) + 1)..Len(sessions') :
                sessions'[j].start_ts = sessions'[j - 1].end_ts]_vars

C26_Witness ==
    /\ op.name = "tick" /\ op.pre_running
    /\ Len(sessions) >= 3
    /\ \E i \in 2..(Len(sessions) - 1) :
          /\ sessions[i].activity_id # sessions[i - 1].activity_id
          /\ sessions[i].start_ts = sessions[i - 1].end_ts
          /\ sessions[i - 1].duration_sec >= 1
          /\ sessions[i].end_ts = Midnight(sessions[i].start_ts)
          /\ sessions[i + 1].start_ts = sessions[i].end_ts
          /\ sessions[i + 1].activity_id = sessions[i].activity_id

====
